---------------------------- MODULE Spec2Model ----------------------------
(***************************************************************************)
(* Wortly: the quiz screen of src/app/index.tsx.                           *)
(*                                                                         *)
(* generateOptions (the distractor sampler), generateQuestion (the         *)
(* question builder), checkAnswer, resetScore, getSuccessRate and the      *)
(* press handlers of the App component, as a state machine over the        *)
(* component's useState cells.                                             *)
(*                                                                         *)
(* Strings are written in ASCII: "secenek 1" stands for the source's       *)
(* "seçenek 1", "yanlis 1" for "yanlış 1", "cekim" for "çekim".            *)
(* JavaScript's null and undefined are the strings Null and Undefined,     *)
(* which no dictionary string equals.                                      *)
(***************************************************************************)
EXTENDS Integers, Sequences, FiniteSets, TLC

VARIABLES
    kelimeler,        \* useState<Kelime[]>(kelimelerData), never set again
    currentQuestion,  \* useState<Question | null>
    selectedAnswer,   \* useState<string | null>
    showResult,       \* useState(false)
    score,            \* useState(0)
    totalQuestions,   \* useState(0)
    streak,           \* useState(0)
    isDarkMode,       \* useState(systemColorScheme === "dark")
    alertOpen,        \* the Alert of resetScore is on screen
    mounted,          \* the mount effect (useEffect) has run
    randomKelime,     \* generateQuestion's local: the subject it drew last
    thrown,           \* an error has left a handler uncaught
    lastEvent,        \* the handler that ran last (history)
    call,             \* one direct call of generateOptions: its arguments
    callResult,       \* ... and what it returned or threw
    rate,             \* one evaluation of getSuccessRate: what it returned
    attempts          \* generateOptions run step by step: its local attempts

vars == <<kelimeler, currentQuestion, selectedAnswer, showResult, score,
          totalQuestions, streak, isDarkMode, alertOpen, mounted,
          randomKelime, thrown, lastEvent, call, callResult, rate,
                   attempts>>

appVars == <<kelimeler, currentQuestion, selectedAnswer, showResult, score,
             totalQuestions, streak, isDarkMode, alertOpen, mounted,
             randomKelime, thrown, lastEvent>>

Null == "<null>"
Undefined == "<undefined>"

(***************************************************************************)
(* Bounds of the model.                                                    *)
(***************************************************************************)
\* answers accepted in one run of the application
MaxAnswers == 2

(***************************************************************************)
(* Constants of the program.                                               *)
(***************************************************************************)
QUESTION_TYPES == <<"kelime-anlam", "anlam-kelime", "cekim", "perfekt">>

KISILER == <<"ich", "du", "er_sie_es", "wir", "ihr", "sie_Sie">>

KISI_LABELS ==
    [ich |-> "ich", du |-> "du", er_sie_es |-> "er/sie/es",
     wir |-> "wir", ihr |-> "ihr", sie_Sie |-> "sie/Sie"]

maxAttempts == 20

fallbackOptions == <<"secenek 1", "secenek 2", "secenek 3", "secenek 4">>

(***************************************************************************)
(* Dictionary entries (type Kelime).  An entry without a conjugation table *)
(* carries NoCekimler, one without a perfect form carries Undefined.  A    *)
(* hole of the array (an entry that is null or undefined at run time) is   *)
(* the entry Missing: reading a property of it throws a TypeError.         *)
(***************************************************************************)
NoCekimler ==
    [ich |-> Undefined, du |-> Undefined, er_sie_es |-> Undefined,
     wir |-> Undefined, ihr |-> Undefined, sie_Sie |-> Undefined]

Missing ==
    [nullish |-> TRUE, kelime |-> Undefined, tur |-> Undefined,
     anlam |-> Undefined, cekimler |-> NoCekimler, perfekt |-> Undefined]

Kelime(kelime, tur, anlam, cekimler, perfekt) ==
    [nullish |-> FALSE, kelime |-> kelime, tur |-> tur, anlam |-> anlam,
     cekimler |-> cekimler, perfekt |-> perfekt]

gehenCekimler ==
    [ich |-> "gehe", du |-> "gehst", er_sie_es |-> "geht",
     wir |-> "gehen", ihr |-> "geht", sie_Sie |-> "gehen"]

seinCekimler ==
    [ich |-> "bin", du |-> "bist", er_sie_es |-> "ist",
     wir |-> "sind", ihr |-> "seid", sie_Sie |-> "sind"]

gehen == Kelime("gehen", "verb", "gitmek", gehenCekimler, "gegangen")
sein == Kelime("sein", "verb", "olmak", seinCekimler, Undefined)
essen == Kelime("essen", "verb", "yemek", NoCekimler, "gegessen")
Haus == Kelime("Haus", "noun", "ev", NoCekimler, Undefined)
Buch == Kelime("Buch", "noun", "kitap", NoCekimler, Undefined)
Wahl == Kelime("Wahl", "noun", "secenek 1", NoCekimler, Undefined)
Fehler == Kelime("Fehler", "noun", "yanlis 1", NoCekimler, Undefined)

\* JavaScript truthiness of a string-or-undefined value and of a table
TruthyString(s) == s # Undefined /\ s # Null /\ s # ""
TruthyCekimler(c) == c # NoCekimler

(***************************************************************************)
(* generateOptions.  Every Math.random() draw is a nondeterministic        *)
(* choice, so the function is modelled by the set of its outcomes.         *)
(***************************************************************************)

\* `seçenek ${n}`
SecenekTemplate(n) == "secenek " \o ToString(n)

\* options.includes(x)
Includes(options, x) == \E i \in 1..Len(options) : options[i] = x

\* One pass through the switch: the value wrongOption gets, or a throw.
Drawn(v) == [threw |-> FALSE, value |-> v]
DrawThrows == [threw |-> TRUE, value |-> Undefined]

\* kelimeler[Math.floor(Math.random() * kelimeler.length)]: an entry of the
\* array, or undefined when the array is empty (index 0 of nothing)
RandomEntries(list) ==
    IF Len(list) = 0 THEN {Missing} ELSE {list[i] : i \in 1..Len(list)}

AnlamDraws(list) ==
    {IF k.nullish THEN DrawThrows ELSE Drawn(k.anlam) : k \in RandomEntries(list)}

KelimeDraws(list) ==
    {IF k.nullish THEN DrawThrows ELSE Drawn(k.kelime) : k \in RandomEntries(list)}

\* CekimDraws without k.kelime !== verb in the filter
CekimDrawsAnyVerb(list, verb) ==
    IF \E i \in 1..Len(list) : list[i].nullish
    THEN {DrawThrows}
    ELSE LET verbKelimeler ==
                 {i \in 1..Len(list) :
                     /\ list[i].tur = "verb"
                     /\ TruthyCekimler(list[i].cekimler)}
         IN  IF verbKelimeler = {}
             THEN {Drawn(Undefined)}
             ELSE {Drawn(list[i].cekimler[KISILER[p]]) :
                      i \in verbKelimeler, p \in 1..Len(KISILER)}

CekimDraws(list, verb) ==
    IF \E i \in 1..Len(list) : list[i].nullish
    THEN {DrawThrows}
    ELSE LET verbKelimeler ==
                 {i \in 1..Len(list) :
                     /\ list[i].tur = "verb"
                     /\ list[i].kelime # verb
                     /\ TruthyCekimler(list[i].cekimler)}
         IN  IF verbKelimeler = {}
             THEN {Drawn(Undefined)}
             ELSE {Drawn(list[i].cekimler[KISILER[p]]) :
                      i \in verbKelimeler, p \in 1..Len(KISILER)}

PerfektDraws(list, verb) ==
    IF \E i \in 1..Len(list) : list[i].nullish
    THEN {DrawThrows}
    ELSE LET verbKelimeler2 ==
                 {i \in 1..Len(list) :
                     /\ list[i].tur = "verb"
                     /\ TruthyString(list[i].perfekt)
                     /\ list[i].kelime # verb}
         IN  IF verbKelimeler2 = {}
             THEN {Drawn(Undefined)}
             ELSE {Drawn(list[i].kelime \o " (perfekt)") : i \in verbKelimeler2}

WrongOptionDraws(list, type, verb) ==
    CASE type = "anlam" -> AnlamDraws(list)
      [] type = "kelime" -> KelimeDraws(list)
      [] type = "cekim" -> CekimDraws(list, verb)
      [] type = "perfekt" -> PerfektDraws(list, verb)
      [] OTHER -> {Drawn(Undefined)}

\* if (wrongOption && !options.includes(wrongOption)) options.push(wrongOption)
Accept(options, wrongOption) ==
    IF TruthyString(wrongOption) /\ ~Includes(options, wrongOption)
    THEN Append(options, wrongOption)
    ELSE options

Running(options) == [threw |-> FALSE, options |-> options]
LoopThrows == [threw |-> TRUE, options |-> <<>>]

\* The while loop after at most n attempts: the lists it can hold, or a throw.
RECURSIVE SampleLoop(_, _, _, _, _)
SampleLoop(list, correctAnswer, type, verb, n) ==
    IF n = 0
    THEN {Running(<<correctAnswer>>)}
    ELSE UNION {
           IF s.threw \/ ~(Len(s.options) < 4)
           THEN {s}
           ELSE {IF d.threw THEN LoopThrows
                 ELSE Running(Accept(s.options, d.value)) :
                    d \in WrongOptionDraws(list, type, verb)} :
           s \in SampleLoop(list, correctAnswer, type, verb, n - 1)}

\* FillOptions with the filler indexed by options.length instead of
\* options.length - 1
RECURSIVE FillOptionsNextIndex(_)
FillOptionsNextIndex(options) ==
    IF ~(Len(options) < 4)
    THEN options
    ELSE LET fallback == fallbackOptions[Len(options) + 1]
         IN  IF ~Includes(options, fallback)
             THEN FillOptionsNextIndex(Append(options, fallback))
             ELSE FillOptionsNextIndex(
                      Append(options, SecenekTemplate(Len(options))))

\* The filler phase: while (options.length < 4) { ... }
RECURSIVE FillOptions(_)
FillOptions(options) ==
    IF ~(Len(options) < 4)
    THEN options
    ELSE LET fallback == fallbackOptions[(Len(options) - 1) + 1]
         IN  IF ~Includes(options, fallback)
             THEN FillOptions(Append(options, fallback))
             ELSE FillOptions(Append(options, SecenekTemplate(Len(options))))

\* options.sort(() => Math.random() - 0.5): some rearrangement of the list
Shuffles(options) ==
    {[i \in 1..Len(options) |-> options[p[i]]] :
        p \in Permutations(1..Len(options))}

\* The outcomes of generateOptions: collected is the list as the loop left
\* it, filled the list before the sort, options the list returned.
GenerateOptions(list, correctAnswer, type, verb) ==
    UNION {
      IF s.threw
      THEN {[threw |-> TRUE, collected |-> <<>>, filled |-> <<>>,
             options |-> <<>>]}
      ELSE {[threw |-> FALSE, collected |-> s.options,
             filled |-> FillOptions(s.options), options |-> o] :
               o \in Shuffles(FillOptions(s.options))} :
      s \in SampleLoop(list, correctAnswer, type, verb, maxAttempts)}


(***************************************************************************)
(* generateQuestion: the set of its outcomes for a non-empty dictionary.   *)
(***************************************************************************)
NoQuestion ==
    [type |-> Null, question |-> Null, correctAnswer |-> Null,
     options |-> <<>>, typeText |-> Null, verb |-> Null]

Question(type, question, correctAnswer, options, typeText, verb) ==
    [type |-> type, question |-> question, correctAnswer |-> correctAnswer,
     options |-> options, typeText |-> typeText, verb |-> verb]

\* the filter of lines 190-198
TypeAvailable(type, k) ==
    CASE type = "cekim" -> k.tur = "verb" /\ TruthyCekimler(k.cekimler)
      [] type = "perfekt" -> k.tur = "verb" /\ TruthyString(k.perfekt)
      [] OTHER -> TRUE

AvailableTypes(k) ==
    {QUESTION_TYPES[i] : i \in {j \in 1..Len(QUESTION_TYPES) :
                                   TypeAvailable(QUESTION_TYPES[j], k)}}

FinalTypes(k) ==
    IF AvailableTypes(k) # {} THEN AvailableTypes(k) ELSE {"kelime-anlam"}

Built(k, q) == [threw |-> FALSE, subject |-> k, question |-> q]

\* the catch block: the fallback question, its options not shuffled
FallbackQuestion(k) ==
    Question("kelime-anlam", k.kelime, k.anlam,
             <<k.anlam, "yanlis 1", "yanlis 2", "yanlis 3">>,
             "Bu kelimenin anlami nedir?", Undefined)

\* An arm of the switch inside try: the question with each option list the
\* sampler can return, or the fallback question when the sampler throws.
WithOptions(list, k, type, question, correctAnswer, mode, verb, typeText, qverb) ==
    {IF r.threw
     THEN Built(k, FallbackQuestion(k))
     ELSE Built(k, Question(type, question, correctAnswer, r.options,
                            typeText, qverb)) :
        r \in GenerateOptions(list, correctAnswer, mode, verb)}

KelimeAnlamArm(list, k) ==
    WithOptions(list, k, "kelime-anlam", k.kelime, k.anlam, "anlam", Null,
                "Bu kelimenin anlami nedir?", Undefined)

\* the anlam-kelime arm with the fields of the kelime-anlam arm pasted in
AnlamKelimeArmPasted(list, k) ==
    WithOptions(list, k, "anlam-kelime", k.kelime, k.anlam, "anlam", Null,
                "Bu anlamin Almancasi nedir?", Undefined)

AnlamKelimeArm(list, k) ==
    WithOptions(list, k, "anlam-kelime", k.anlam, k.kelime, "kelime", Null,
                "Bu anlamin Almancasi nedir?", Undefined)

CekimArm(list, k) ==
    IF TruthyCekimler(k.cekimler) /\ k.tur = "verb"
    THEN UNION {
           WithOptions(list, k, "cekim",
                       KISI_LABELS[KISILER[p]] \o " _______ (" \o k.kelime \o ")",
                       k.cekimler[KISILER[p]], "cekim", k.kelime,
                       "Dogru cekimi secin", k.kelime) :
           p \in 1..Len(KISILER)}
    ELSE KelimeAnlamArm(list, k)

\* the perfekt arm calling the sampler in its perfekt mode, excluding the
\* subject
PerfektArmPerfektMode(list, k) ==
    IF TruthyString(k.perfekt) /\ k.tur = "verb"
    THEN WithOptions(list, k, "perfekt",
                     "\"" \o k.perfekt \o "\" hangi fiilin perfekt halidir?",
                     k.kelime, "perfekt", k.kelime,
                     "Bu perfekt hali hangi fiildir?", k.kelime)
    ELSE KelimeAnlamArm(list, k)

PerfektArm(list, k) ==
    IF TruthyString(k.perfekt) /\ k.tur = "verb"
    THEN WithOptions(list, k, "perfekt",
                     "\"" \o k.perfekt \o "\" hangi fiilin perfekt halidir?",
                     k.kelime, "kelime", Null,
                     "Bu perfekt hali hangi fiildir?", k.kelime)
    ELSE KelimeAnlamArm(list, k)

QuestionArm(list, k, questionType) ==
    CASE questionType = "kelime-anlam" -> KelimeAnlamArm(list, k)
      [] questionType = "anlam-kelime" -> AnlamKelimeArm(list, k)
      [] questionType = "cekim" -> CekimArm(list, k)
      [] questionType = "perfekt" -> PerfektArm(list, k)
      [] OTHER -> KelimeAnlamArm(list, k)

\* generateQuestion without the capability tests of lines 195 and 256: a
\* perfect-tense question is built for any subject
GenerateQuestionUnchecked(list) ==
    UNION {
      IF k.nullish
      THEN {[threw |-> TRUE, subject |-> k, question |-> NoQuestion]}
      ELSE KelimeAnlamArm(list, k) \cup AnlamKelimeArm(list, k)
           \cup CekimArm(list, k)
           \cup WithOptions(list, k, "perfekt",
                            "\"" \o k.perfekt \o "\" hangi fiilin perfekt halidir?",
                            k.kelime, "kelime", Null,
                            "Bu perfekt hali hangi fiildir?", k.kelime) :
      k \in RandomEntries(list)}

\* Lines 187-304 for a non-empty dictionary.  A subject that is a hole of
\* the array makes line 193 throw, before the try block is entered.
GenerateQuestion(list) ==
    UNION {
      IF k.nullish
      THEN {[threw |-> TRUE, subject |-> k, question |-> NoQuestion]}
      ELSE UNION {QuestionArm(list, k, t) : t \in FinalTypes(k)} :
      k \in RandomEntries(list)}

(***************************************************************************)
(* The dictionaries the application is run on, and its states.             *)
(***************************************************************************)
Dictionaries == {<<>>, <<Haus>>, <<essen, Missing>>}

\* The dictionaries generateQuestion is called on once, as the mount effect
\* calls it.
BuildDictionaries ==
    {<<gehen, Haus>>, <<Wahl>>, <<Haus, Missing>>, <<sein, essen>>,
     <<Fehler, Missing>>, <<Haus, Wahl>>, <<gehen, essen, Haus, Buch>>,
     <<gehen, sein>>}

\* generateQuestion's outcomes on the application's dictionaries, computed
\* once per dictionary
QuestionOutcomes == [list \in Dictionaries |-> GenerateQuestion(list)]

Outcomes(list) ==
    IF list \in Dictionaries THEN QuestionOutcomes[list]
    ELSE GenerateQuestion(list)

NoCall == [correctAnswer |-> Null, type |-> Null, verb |-> Null]

NoResult ==
    [state |-> "idle", collected |-> <<>>, filled |-> <<>>, options |-> <<>>]

\* the component's state cells as useState initialises them
AppStart ==
    /\ currentQuestion = NoQuestion
    /\ selectedAnswer = Null
    /\ showResult = FALSE
    /\ score = 0
    /\ totalQuestions = 0
    /\ streak = 0
    /\ isDarkMode \in BOOLEAN
    /\ alertOpen = FALSE
    /\ mounted = FALSE
    /\ randomKelime = Missing
    /\ thrown = FALSE
    /\ lastEvent = "none"

Init ==
    /\ kelimeler \in Dictionaries
    /\ AppStart
    /\ call = NoCall
    /\ callResult = NoResult
    /\ rate = -1
    /\ attempts = 0

\* RunGenerateQuestion without the early return of line 172
RunGenerateQuestionUnguarded(cleared) ==
    \E out \in Outcomes(kelimeler) :
       /\ randomKelime' = out.subject
       /\ IF out.threw
          THEN /\ thrown' = TRUE
               /\ UNCHANGED currentQuestion
               /\ selectedAnswer' = IF cleared THEN Null ELSE selectedAnswer
               /\ showResult' = IF cleared THEN FALSE ELSE showResult
          ELSE /\ currentQuestion' = out.question
               /\ selectedAnswer' = Null
               /\ showResult' = FALSE
               /\ UNCHANGED thrown

\* RunGenerateQuestion without setSelectedAnswer(null) and
\* setShowResult(false) after setCurrentQuestion
RunGenerateQuestionKeepsResult(cleared) ==
    IF Len(kelimeler) = 0
    THEN /\ UNCHANGED <<currentQuestion, randomKelime, thrown>>
         /\ selectedAnswer' = IF cleared THEN Null ELSE selectedAnswer
         /\ showResult' = IF cleared THEN FALSE ELSE showResult
    ELSE \E out \in Outcomes(kelimeler) :
           /\ randomKelime' = out.subject
           /\ selectedAnswer' = IF cleared THEN Null ELSE selectedAnswer
           /\ showResult' = IF cleared THEN FALSE ELSE showResult
           /\ IF out.threw
              THEN thrown' = TRUE /\ UNCHANGED currentQuestion
              ELSE currentQuestion' = out.question /\ UNCHANGED thrown

\* A call of generateQuestion from a handler.  cleared: the handler has
\* called setShowResult(false) and setSelectedAnswer(null) before it.
RunGenerateQuestion(cleared) ==
    IF Len(kelimeler) = 0
    THEN /\ UNCHANGED <<currentQuestion, randomKelime, thrown>>
         /\ selectedAnswer' = IF cleared THEN Null ELSE selectedAnswer
         /\ showResult' = IF cleared THEN FALSE ELSE showResult
    ELSE \E out \in Outcomes(kelimeler) :
           /\ randomKelime' = out.subject
           /\ IF out.threw
              THEN /\ thrown' = TRUE
                   /\ UNCHANGED currentQuestion
                   /\ selectedAnswer' = IF cleared THEN Null ELSE selectedAnswer
                   /\ showResult' = IF cleared THEN FALSE ELSE showResult
              ELSE /\ currentQuestion' = out.question
                   /\ selectedAnswer' = Null
                   /\ showResult' = FALSE
                   /\ UNCHANGED thrown

\* No handler runs before the mount effect, after an uncaught error, or
\* (the Alert being modal) behind the Alert.
Idle == mounted /\ ~thrown /\ ~alertOpen

\* useEffect(() => { if (kelimeler.length > 0) generateQuestion(); })
MountEffect ==
    /\ ~mounted
    /\ mounted' = TRUE
    /\ lastEvent' = "mount"
    /\ IF Len(kelimeler) > 0
       THEN RunGenerateQuestion(FALSE)
       ELSE UNCHANGED <<currentQuestion, selectedAnswer, showResult,
                        randomKelime, thrown>>
    /\ UNCHANGED <<kelimeler, score, totalQuestions, streak, isDarkMode,
                   alertOpen, call, callResult, rate,
                   attempts>>

\* checkAnswer without setStreak(0) on a wrong answer
checkAnswerKeepsStreak(answer) ==
    IF currentQuestion = NoQuestion
    THEN UNCHANGED <<selectedAnswer, showResult, totalQuestions, score, streak>>
    ELSE /\ selectedAnswer' = answer
         /\ showResult' = TRUE
         /\ totalQuestions' = totalQuestions + 1
         /\ IF answer = currentQuestion.correctAnswer
            THEN score' = score + 1 /\ streak' = streak + 1
            ELSE score' = score /\ streak' = streak

\* checkAnswer without the early return of line 308: the setters of lines
\* 309-311 run before currentQuestion.correctAnswer is read
checkAnswerUnguarded(answer) ==
    /\ selectedAnswer' = answer
    /\ showResult' = TRUE
    /\ totalQuestions' = totalQuestions + 1
    /\ IF currentQuestion # NoQuestion /\ answer = currentQuestion.correctAnswer
       THEN score' = score + 1 /\ streak' = streak + 1
       ELSE score' = score /\ streak' = IF currentQuestion = NoQuestion
                                        THEN streak ELSE 0

\* checkAnswer without setSelectedAnswer(answer)
checkAnswerForgetsSelection(answer) ==
    IF currentQuestion = NoQuestion
    THEN UNCHANGED <<selectedAnswer, showResult, totalQuestions, score, streak>>
    ELSE /\ UNCHANGED selectedAnswer
         /\ showResult' = TRUE
         /\ totalQuestions' = totalQuestions + 1
         /\ IF answer = currentQuestion.correctAnswer
            THEN score' = score + 1 /\ streak' = streak + 1
            ELSE score' = score /\ streak' = 0

checkAnswer(answer) ==
    IF currentQuestion = NoQuestion
    THEN UNCHANGED <<selectedAnswer, showResult, totalQuestions, score, streak>>
    ELSE /\ selectedAnswer' = answer
         /\ showResult' = TRUE
         /\ totalQuestions' = totalQuestions + 1
         /\ IF answer = currentQuestion.correctAnswer
            THEN score' = score + 1 /\ streak' = streak + 1
            ELSE score' = score /\ streak' = 0

\* the option's onPress without the showResult test
OptionPressedAlways(option) == checkAnswer(option)

\* onPress={() => !showResult && checkAnswer(option)}, disabled={showResult}
OptionPressed(option) ==
    IF ~showResult
    THEN checkAnswer(option)
    ELSE UNCHANGED <<selectedAnswer, showResult, totalQuestions, score, streak>>

PressOption ==
    /\ Idle
    /\ currentQuestion # NoQuestion
    /\ showResult \/ totalQuestions < MaxAnswers
    /\ \E i \in 1..Len(currentQuestion.options) :
          OptionPressed(currentQuestion.options[i])
    /\ lastEvent' = IF showResult THEN "press-ignored" ELSE "press"
    /\ UNCHANGED <<kelimeler, currentQuestion, isDarkMode, alertOpen, mounted,
                   randomKelime, thrown, call, callResult, rate,
                   attempts>>

\* the "Sonraki Soru" button, rendered when showResult
NextQuestion ==
    /\ Idle
    /\ showResult
    /\ lastEvent' = "next"
    /\ RunGenerateQuestion(TRUE)
    /\ UNCHANGED <<kelimeler, score, totalQuestions, streak, isDarkMode,
                   alertOpen, mounted, call, callResult, rate,
                   attempts>>

\* the "Yeni Soru" button, rendered when there is no current question
NewQuestion ==
    /\ Idle
    /\ currentQuestion = NoQuestion
    /\ lastEvent' = "new"
    /\ RunGenerateQuestion(TRUE)
    /\ UNCHANGED <<kelimeler, score, totalQuestions, streak, isDarkMode,
                   alertOpen, mounted, call, callResult, rate,
                   attempts>>

ToggleTheme ==
    /\ Idle
    /\ isDarkMode' = ~isDarkMode
    /\ lastEvent' = "toggle"
    /\ UNCHANGED <<kelimeler, currentQuestion, selectedAnswer, showResult,
                   score, totalQuestions, streak, alertOpen, mounted,
                   randomKelime, thrown, call, callResult, rate,
                   attempts>>

\* resetScore: the Alert is shown
resetScore ==
    /\ Idle
    /\ alertOpen' = TRUE
    /\ lastEvent' = "reset"
    /\ UNCHANGED <<kelimeler, currentQuestion, selectedAnswer, showResult,
                   score, totalQuestions, streak, isDarkMode, mounted,
                   randomKelime, thrown, call, callResult, rate,
                   attempts>>

\* the "Iptal" button wired to the zeroing of the "Evet" button
ResetCancelZeroes ==
    /\ alertOpen
    /\ alertOpen' = FALSE
    /\ lastEvent' = "cancel"
    /\ score' = 0
    /\ totalQuestions' = 0
    /\ streak' = 0
    /\ UNCHANGED <<kelimeler, currentQuestion, selectedAnswer, showResult,
                   isDarkMode, mounted, randomKelime, thrown, call,
                   callResult, rate,
                   attempts>>

\* the Alert's "Iptal" button
ResetCancel ==
    /\ alertOpen
    /\ alertOpen' = FALSE
    /\ lastEvent' = "cancel"
    /\ UNCHANGED <<kelimeler, currentQuestion, selectedAnswer, showResult,
                   score, totalQuestions, streak, isDarkMode, mounted,
                   randomKelime, thrown, call, callResult, rate,
                   attempts>>

\* the "Evet" button without setStreak(0)
ResetConfirmKeepsStreak ==
    /\ alertOpen
    /\ alertOpen' = FALSE
    /\ lastEvent' = "confirm"
    /\ score' = 0
    /\ totalQuestions' = 0
    /\ UNCHANGED streak
    /\ RunGenerateQuestion(FALSE)
    /\ UNCHANGED <<kelimeler, isDarkMode, mounted, call, callResult, rate,
                   attempts>>

\* the Alert's "Evet" button
ResetConfirm ==
    /\ alertOpen
    /\ alertOpen' = FALSE
    /\ lastEvent' = "confirm"
    /\ score' = 0
    /\ totalQuestions' = 0
    /\ streak' = 0
    /\ RunGenerateQuestion(FALSE)
    /\ UNCHANGED <<kelimeler, isDarkMode, mounted, call, callResult, rate,
                   attempts>>

Next ==
    \/ MountEffect
    \/ PressOption
    \/ NextQuestion
    \/ NewQuestion
    \/ ToggleTheme
    \/ resetScore
    \/ ResetCancel
    \/ ResetConfirm

Spec == Init /\ [][Next]_vars

\* generateQuestion called once on each dictionary of BuildDictionaries
InitBuild ==
    /\ kelimeler \in BuildDictionaries
    /\ AppStart
    /\ call = NoCall
    /\ callResult = NoResult
    /\ rate = -1
    /\ attempts = 0

NextBuild == MountEffect

SpecBuild == InitBuild /\ [][NextBuild]_vars

(***************************************************************************)
(* generateOptions called directly, once, on each input of a bounded set.  *)
(***************************************************************************)
SampleDictionaries ==
    {<<>>, <<Haus, Buch>>, <<gehen, Haus>>, <<Haus, Missing>>,
     <<gehen, essen, Haus, Buch>>, <<gehen, sein>>}

SampleAnswers == {"ev", "gehe", "secenek 1", "secenek 2"}

SampleTypes == {"anlam", "kelime", "cekim", "perfekt"}

SampleVerbs == {Null, "gehen"}

InitSample ==
    /\ kelimeler \in SampleDictionaries
    /\ AppStart
    /\ call \in [correctAnswer : SampleAnswers, type : SampleTypes,
                 verb : SampleVerbs]
    /\ callResult = NoResult
    /\ rate = -1
    /\ attempts = 0

CallGenerateOptions ==
    /\ callResult.state = "idle"
    /\ \E r \in GenerateOptions(kelimeler, call.correctAnswer, call.type,
                                call.verb) :
          callResult' = [state |-> IF r.threw THEN "threw" ELSE "returned",
                         collected |-> r.collected, filled |-> r.filled,
                         options |-> r.options]
    /\ UNCHANGED <<appVars, call, rate,
                   attempts>>

NextSample == CallGenerateOptions

SpecSample == InitSample /\ [][NextSample]_vars

(***************************************************************************)
(* getSuccessRate.  score / totalQuestions and the product with 100 are    *)
(* IEEE-754 double operations, each rounded to 53 significant bits (to     *)
(* nearest, ties to even).  A positive double is its 53-bit significand,   *)
(* a leading 1 bit followed by 4 limbs of 13 bits (most significant limb   *)
(* first), and the exponent exp of the leading bit: its value is           *)
(*   2^exp * (1 + limbs[1]/2^13 + limbs[2]/2^26 + limbs[3]/2^39            *)
(*              + limbs[4]/2^52).                                          *)
(***************************************************************************)
LimbBits == 13
LimbCount == 4
LimbBase == 8192

DoubleZero == [zero |-> TRUE, limbs |-> <<0, 0, 0, 0>>, exp |-> 0]

RECURSIVE Power2(_)
Power2(n) == IF n = 0 THEN 1 ELSE 2 * Power2(n - 1)

\* the number of bits of n > 0
RECURSIVE BitLength(_)
BitLength(n) == IF n = 0 THEN 0 ELSE 1 + BitLength(n \div 2)

\* limbs + 1, from limb i down; all ones wrap to all zeros
RECURSIVE IncrementLimbs(_, _)
IncrementLimbs(limbs, i) ==
    IF i = 0 THEN limbs
    ELSE IF limbs[i] < LimbBase - 1 THEN [limbs EXCEPT ![i] = limbs[i] + 1]
    ELSE IncrementLimbs([limbs EXCEPT ![i] = 0], i - 1)

\* Round-to-nearest-even of a significand whose discarded part compares to
\* one half as cmp (-1 below, 0 equal, 1 above); exp is its exponent.
RoundNearestEven(limbs, exp, cmp) ==
    LET up == cmp > 0 \/ (cmp = 0 /\ limbs[LimbCount] % 2 = 1)
    IN  IF ~up THEN [zero |-> FALSE, limbs |-> limbs, exp |-> exp]
        ELSE IF \A i \in 1..LimbCount : limbs[i] = LimbBase - 1
        THEN [zero |-> FALSE, limbs |-> [i \in 1..LimbCount |-> 0],
              exp |-> exp + 1]
        ELSE [zero |-> FALSE, limbs |-> IncrementLimbs(limbs, LimbCount),
              exp |-> exp]

\* the next n limbs of r / t (r < t < 2^17) and the remainder they leave
RECURSIVE QuotientLimbs(_, _, _)
QuotientLimbs(r, t, n) ==
    IF n = 0 THEN [limbs |-> <<>>, rem |-> r]
    ELSE LET rest == QuotientLimbs((r * LimbBase) % t, t, n - 1)
         IN  [limbs |-> <<(r * LimbBase) \div t>> \o rest.limbs,
              rem |-> rest.rem]

\* the least k with s * 2^k >= t
RECURSIVE LeadingShift(_, _)
LeadingShift(s, t) == IF s >= t THEN 0 ELSE 1 + LeadingShift(2 * s, t)

\* s / t for integers 0 <= s <= t, 0 < t < 2^17
DoubleDivide(s, t) ==
    IF s = 0 THEN DoubleZero
    ELSE LET k == LeadingShift(s, t)
             q == QuotientLimbs(s * Power2(k) - t, t, LimbCount)
             cmp == IF 2 * q.rem > t THEN 1 ELSE IF 2 * q.rem = t THEN 0 ELSE -1
         IN  RoundNearestEven(q.limbs, -k, cmp)

\* the exact product significand * c, from limb i down: the limbs and what
\* stands in front of them
RECURSIVE ProductLimbs(_, _, _, _, _)
ProductLimbs(limbs, i, c, carry, acc) ==
    IF i = 0 THEN [top |-> c + carry, limbs |-> acc]
    ELSE ProductLimbs(limbs, i - 1, c, (limbs[i] * c + carry) \div LimbBase,
                      <<(limbs[i] * c + carry) % LimbBase>> \o acc)

\* x * c for a double x >= 0 and an integer 1 <= c < 2^13
DoubleTimes(x, c) ==
    IF x.zero THEN DoubleZero
    ELSE LET product == ProductLimbs(x.limbs, LimbCount, c, 0, <<>>)
             all == <<product.top>> \o product.limbs
             dropped == BitLength(product.top) - 1
             unit == Power2(dropped)
             low == all[LimbCount + 1] % unit
             cmp == IF dropped = 0 \/ 2 * low < unit THEN -1
                    ELSE IF 2 * low = unit THEN 0 ELSE 1
             kept == [i \in 1..LimbCount |->
                        (all[i + 1] \div unit)
                        + (all[i] % unit) * Power2(LimbBits - dropped)]
         IN  RoundNearestEven(kept, x.exp + dropped, cmp)

\* Math.round(x) for a double 0 <= x < 2^13: floor(x + 1/2)
MathRound(x) ==
    IF x.zero \/ x.exp < -1 THEN 0
    ELSE IF x.exp = -1 THEN 1
    ELSE Power2(x.exp) + (x.limbs[1] \div Power2(LimbBits - x.exp))
         + ((x.limbs[1] \div Power2(LimbBits - 1 - x.exp)) % 2)

\* totalQuestions > 0 ? Math.round((score / totalQuestions) * 100) : 0
getSuccessRate(s, t) ==
    IF t > 0 THEN MathRound(DoubleTimes(DoubleDivide(s, t), 100)) ELSE 0

(***************************************************************************)
(* getSuccessRate evaluated once on each pair of counters that answering   *)
(* can lead to (score <= totalQuestions), up to a bound.  Only the two     *)
(* counters it reads are drawn.                                            *)
(***************************************************************************)
\* the largest totalQuestions the rate is evaluated on
MaxRateTotal == 40

InitRate ==
    /\ kelimeler = <<Haus>>
    /\ currentQuestion = NoQuestion
    /\ selectedAnswer = Null
    /\ showResult = FALSE
    /\ totalQuestions \in 0..MaxRateTotal
    /\ score \in 0..totalQuestions
    /\ streak = 0
    /\ isDarkMode = FALSE
    /\ alertOpen = FALSE
    /\ mounted = FALSE
    /\ randomKelime = Missing
    /\ thrown = FALSE
    /\ lastEvent = "none"
    /\ call = NoCall
    /\ callResult = NoResult
    /\ rate = -1
    /\ attempts = 0

\* the render of {getSuccessRate()}%
RenderSuccessRate ==
    /\ rate = -1
    /\ rate' = getSuccessRate(score, totalQuestions)
    /\ UNCHANGED <<appVars, call, callResult, attempts>>

NextRate == RenderSuccessRate

SpecRate == InitRate /\ [][NextRate]_vars

(***************************************************************************)
(* generateOptions run statement by statement: callResult.state is the     *)
(* place the control is at ("loop": the test of the while of line 81,      *)
(* "fill": the test of line 131), callResult.collected the local options   *)
(* during the first loop, callResult.filled the same local from line 131   *)
(* on.  The code is synchronous and nothing suspends it, so a step that    *)
(* can be taken is taken: weak fairness of the steps.                      *)
(***************************************************************************)
LoopDictionaries ==
    {<<>>, <<Haus>>, <<Haus, Buch>>, <<gehen, Haus>>, <<Haus, Missing>>}

LoopAnswers == {"ev", "gehe", "secenek 1"}

InitLoop ==
    /\ kelimeler \in LoopDictionaries
    /\ AppStart
    /\ call \in [correctAnswer : LoopAnswers, type : SampleTypes,
                 verb : SampleVerbs]
    /\ callResult = NoResult
    /\ rate = -1
    /\ attempts = 0

\* let options = [correctAnswer]; let attempts = 0;
StartGenerateOptions ==
    /\ callResult.state = "idle"
    /\ callResult' = [callResult EXCEPT !.state = "loop",
                                       !.collected = <<call.correctAnswer>>]
    /\ attempts' = 0
    /\ UNCHANGED <<appVars, call, rate>>

\* LoopAttempt without attempts++
LoopAttemptNoCount ==
    /\ callResult.state = "loop"
    /\ Len(callResult.collected) < 4 /\ attempts < maxAttempts
    /\ \E d \in WrongOptionDraws(kelimeler, call.type, call.verb) :
          callResult' =
              IF d.threw
              THEN [callResult EXCEPT !.state = "threw"]
              ELSE [callResult EXCEPT
                       !.collected = Accept(callResult.collected, d.value)]
    /\ UNCHANGED <<appVars, call, rate, attempts>>

\* one pass through the body of while (options.length < 4 && attempts <
\* maxAttempts)
LoopAttempt ==
    /\ callResult.state = "loop"
    /\ Len(callResult.collected) < 4 /\ attempts < maxAttempts
    /\ attempts' = attempts + 1
    /\ \E d \in WrongOptionDraws(kelimeler, call.type, call.verb) :
          callResult' =
              IF d.threw
              THEN [callResult EXCEPT !.state = "threw"]
              ELSE [callResult EXCEPT
                       !.collected = Accept(callResult.collected, d.value)]
    /\ UNCHANGED <<appVars, call, rate>>

\* the while condition is false: control reaches line 131
LoopExit ==
    /\ callResult.state = "loop"
    /\ ~(Len(callResult.collected) < 4 /\ attempts < maxAttempts)
    /\ callResult' = [callResult EXCEPT !.state = "fill",
                                       !.filled = callResult.collected]
    /\ UNCHANGED <<appVars, call, rate, attempts>>

\* what one pass through the body of the filler loop pushes
FillerFor(options) ==
    LET fallback == fallbackOptions[(Len(options) - 1) + 1]
    IN  IF ~Includes(options, fallback)
        THEN fallback
        ELSE SecenekTemplate(Len(options))

\* one pass through the body of while (options.length < 4) of line 138
FillStep ==
    /\ callResult.state = "fill"
    /\ Len(callResult.filled) < 4
    /\ callResult' =
          [callResult EXCEPT
              !.filled = Append(callResult.filled,
                                FillerFor(callResult.filled))]
    /\ UNCHANGED <<appVars, call, rate, attempts>>

\* return options.sort(() => Math.random() - 0.5)
SortAndReturn ==
    /\ callResult.state = "fill"
    /\ ~(Len(callResult.filled) < 4)
    /\ \E o \in Shuffles(callResult.filled) :
          callResult' = [callResult EXCEPT !.state = "returned",
                                           !.options = o]
    /\ UNCHANGED <<appVars, call, rate, attempts>>

NextLoop ==
    \/ StartGenerateOptions
    \/ LoopAttempt
    \/ LoopExit
    \/ FillStep
    \/ SortAndReturn

SpecLoop == InitLoop /\ [][NextLoop]_vars /\ WF_vars(NextLoop)

(***************************************************************************)
(* checkAnswer called directly, with any string and in any state of the    *)
(* question, the state without a question included (the screen renders no  *)
(* option then, so no press reaches it).                                   *)
(***************************************************************************)
CheckAnswers == {"ev", "yemek", "secenek 1", "Haus"}

CallCheckAnswer ==
    /\ ~thrown
    /\ totalQuestions < MaxAnswers
    /\ \E answer \in CheckAnswers : checkAnswer(answer)
    /\ lastEvent' = "check"
    /\ UNCHANGED <<kelimeler, currentQuestion, isDarkMode, alertOpen, mounted,
                   randomKelime, thrown, call, callResult, rate, attempts>>

NextCheck ==
    \/ MountEffect
    \/ CallCheckAnswer
    \/ NextQuestion

SpecCheck == Init /\ [][NextCheck]_vars

(***************************************************************************)
(* The claims.                                                             *)
(***************************************************************************)
\* no two entries of a list are equal
Distinct(list) ==
    \A i, j \in 1..Len(list) : i # j => list[i] # list[j]

\* how often x occurs in a list
Occurrences(list, x) == Cardinality({i \in 1..Len(list) : list[i] = x})

\* the entries of a list
Entries(list) == {list[i] : i \in 1..Len(list)}

\* C1 (as claimed): every question generateQuestion sets, from the switch or
\* from the catch block, has exactly 4 options, pairwise distinct, with
\* correctAnswer among them exactly once.
C1_FourDistinctOptions ==
    currentQuestion # NoQuestion =>
        /\ Len(currentQuestion.options) = 4
        /\ Distinct(currentQuestion.options)
        /\ Occurrences(currentQuestion.options,
                       currentQuestion.correctAnswer) = 1

\* C2 (as claimed): a list generateOptions returns has exactly 4 entries and
\* no two of them are equal, whatever the dictionary, the correct answer
\* (a filler string included), the mode and the draws.
C2_SampleHasNoDuplicates ==
    callResult.state = "returned" =>
        /\ Len(callResult.options) = 4
        /\ Distinct(callResult.options)

\* C3 (as claimed): on the empty dictionary generateOptions raises no error
\* in any mode: it returns the correct answer and three filler strings.
C3_EmptyDictionaryReturnsFillers ==
    (kelimeler = <<>> /\ callResult.state # "idle") =>
        /\ callResult.state = "returned"
        /\ callResult.collected = <<call.correctAnswer>>
        /\ Len(callResult.filled) = 4
        /\ \A j \in 2..4 : callResult.filled[j] \in Entries(fallbackOptions)

\* C4: a current question of type cekim was built from a subject that is a
\* verb with a conjugation table, one of type perfekt from a subject that
\* is a verb with a perfect form; the question's verb is that subject.
C4_TypeNeedsCapability ==
    /\ currentQuestion.type = "cekim" =>
          /\ ~randomKelime.nullish
          /\ randomKelime.tur = "verb"
          /\ TruthyCekimler(randomKelime.cekimler)
          /\ currentQuestion.verb = randomKelime.kelime
    /\ currentQuestion.type = "perfekt" =>
          /\ ~randomKelime.nullish
          /\ randomKelime.tur = "verb"
          /\ TruthyString(randomKelime.perfekt)
          /\ currentQuestion.verb = randomKelime.kelime

\* C4's case: a conjugation question on a dictionary whose other verb has
\* no conjugation table.
C4_Witness ==
    /\ kelimeler = <<sein, essen>>
    /\ currentQuestion.type = "cekim"
    /\ randomKelime = sein

\* C5: from an Answered question (showResult true), as long as no build and
\* no reset replaces it, no step changes score, totalQuestions, streak or
\* selectedAnswer: a further option press is ignored.
C5_AnsweredIgnoresPress ==
    [][(showResult /\ showResult' /\ ~alertOpen) =>
          UNCHANGED <<score, totalQuestions, streak, selectedAnswer>>]_vars

\* C5's case: an option was pressed on an Answered question, which has
\* counted once.
C5_Witness ==
    /\ lastEvent = "press-ignored"
    /\ showResult
    /\ selectedAnswer # Null
    /\ totalQuestions = 1

\* C6: a step that answers the Active question (showResult becomes true)
\* adds 1 to totalQuestions; a correct answer adds 1 to score and to
\* streak, a wrong one leaves score and sets streak to 0.
C6_AnswerCounts ==
    [][(~showResult /\ showResult') =>
          /\ totalQuestions' = totalQuestions + 1
          /\ selectedAnswer' \in Entries(currentQuestion.options)
          /\ IF selectedAnswer' = currentQuestion.correctAnswer
             THEN score' = score + 1 /\ streak' = streak + 1
             ELSE score' = score /\ streak' = 0]_vars

\* C6's case: a wrong answer after a correct one has reset the streak.
C6_Witness ==
    /\ lastEvent = "press"
    /\ totalQuestions = 2
    /\ score = 1
    /\ streak = 0
    /\ selectedAnswer # currentQuestion.correctAnswer

\* C7 (as claimed): on a non-empty dictionary generateQuestion never lets
\* an error reach its caller and always leaves a current question.
C7_BuildNeverThrows ==
    (mounted /\ Len(kelimeler) > 0) =>
        /\ ~thrown
        /\ currentQuestion # NoQuestion

\* the first n entries of a list
Take(list, n) == SubSeq(list, 1, IF n < Len(list) THEN n ELSE Len(list))

NotCollected(filler) == ~Includes(callResult.collected, filler)

\* C8 (as claimed): when the loop ends with k < 4 entries, the 4 - k slots
\* are filled with the filler strings in order from "secenek 1", skipping
\* those already present.
C8_FillersFromFirst ==
    (callResult.state = "returned" /\ Len(callResult.collected) < 4) =>
        callResult.filled =
            callResult.collected
            \o Take(SelectSeq(fallbackOptions, NotCollected),
                    4 - Len(callResult.collected))

\* C8 (amended): when the loop ends with k < 4 entries, slot j of the list
\* (k < j <= 4) is filled with "secenek <j - 1>": the fillers appended are
\* "secenek k" up to "secenek 3", in that order.
C8_FillersByLength ==
    (callResult.state = "returned" /\ Len(callResult.collected) < 4) =>
        /\ Len(callResult.filled) = 4
        /\ Take(callResult.filled, Len(callResult.collected))
              = callResult.collected
        /\ \A j \in (Len(callResult.collected) + 1)..4 :
              callResult.filled[j] = fallbackOptions[j - 1]
        /\ \E p \in Permutations(1..4) :
              callResult.options = [i \in 1..4 |-> callResult.filled[p[i]]]

\* C8's case: the two-entry dictionary in anlam mode, the loop ending with
\* the correct answer and one distractor.
C8_Witness ==
    /\ kelimeler = <<Haus, Buch>>
    /\ call.type = "anlam"
    /\ callResult.state = "returned"
    /\ callResult.collected = <<"ev", "kitap">>
    /\ callResult.filled = <<"ev", "kitap", "secenek 2", "secenek 3">>

\* C9: with an empty dictionary there is never a current question,
\* selectedAnswer stays null and showResult false, and no error is thrown,
\* whichever handlers have run.
C9_EmptyDictionaryNoQuestion ==
    kelimeler = <<>> =>
        /\ currentQuestion = NoQuestion
        /\ selectedAnswer = Null
        /\ showResult = FALSE
        /\ ~thrown

\* C9's case: the reset was confirmed on the empty dictionary.
C9_Witness ==
    /\ kelimeler = <<>>
    /\ mounted
    /\ lastEvent = "confirm"

\* C10 (as claimed): the displayed rate is round(100 * score /
\* totalQuestions), halves rounded up, and 0 when totalQuestions = 0; it
\* lies in 0..100.
C10_RateIsRoundedRatio ==
    rate # -1 =>
        /\ rate = IF totalQuestions > 0
                  THEN (200 * score + totalQuestions) \div (2 * totalQuestions)
                  ELSE 0
        /\ rate \in 0..100

\* the handlers that build a question or only touch the screen
BuildOrDisplayEvents == {"mount", "next", "new", "toggle", "reset", "cancel"}

\* C11: a step of the mount effect, of the next-question or new-question
\* button, of the theme toggle, of the reset button or of the Alert's
\* cancel button leaves score, totalQuestions and streak unchanged; a step
\* that changes one of them is an accepted answer or a confirmed reset.
C11_CountersFrame ==
    [][/\ lastEvent' \in BuildOrDisplayEvents =>
             UNCHANGED <<score, totalQuestions, streak>>
       /\ <<score, totalQuestions, streak>>' # <<score, totalQuestions, streak>>
             => \/ ~showResult /\ showResult' /\ lastEvent' = "press"
                \/ alertOpen /\ ~alertOpen' /\ lastEvent' = "confirm"]_vars

\* C11's case: the reset was cancelled with counters that are not zero.
C11_Witness ==
    /\ lastEvent = "cancel"
    /\ totalQuestions = 2
    /\ score = 1
    /\ streak = 1

\* C12 (as claimed): after a confirmed reset on a non-empty dictionary the
\* three counters are 0 and a freshly built question is Active: the build
\* has completed, selectedAnswer is null and showResult is false.
C12_ConfirmedResetIsFresh ==
    (lastEvent = "confirm" /\ Len(kelimeler) > 0) =>
        /\ score = 0
        /\ totalQuestions = 0
        /\ streak = 0
        /\ ~thrown
        /\ currentQuestion # NoQuestion
        /\ randomKelime.kelime = currentQuestion.question
              \/ randomKelime.anlam = currentQuestion.question
              \/ randomKelime.kelime = currentQuestion.verb
        /\ selectedAnswer = Null
        /\ showResult = FALSE

\* the state of the question lifecycle
LifecycleState ==
    IF currentQuestion = NoQuestion THEN "NoQuestion"
    ELSE IF showResult THEN "Answered" ELSE "Active"

LifecycleTransitions ==
    {<<"NoQuestion", "Active">>, <<"Active", "Answered">>,
     <<"Answered", "Active">>}

\* the handlers that call generateQuestion
BuildEvents == {"mount", "next", "new", "confirm"}

\* C13: a step changes the lifecycle state only along NoQuestion -> Active,
\* Active -> Answered or Answered -> Active; a build that completes leaves a
\* question with selectedAnswer null and showResult false; Answered is
\* entered only by an option press on the Active question, which stays the
\* current question; Answered is left only by the next-question button or
\* a confirmed reset; a question, once there, is never taken away.
C13_Lifecycle ==
    [][/\ LifecycleState' # LifecycleState =>
             <<LifecycleState, LifecycleState'>> \in LifecycleTransitions
       /\ (lastEvent' \in BuildEvents /\ Len(kelimeler) > 0 /\ ~thrown') =>
             /\ currentQuestion' # NoQuestion
             /\ selectedAnswer' = Null
             /\ showResult' = FALSE
       /\ (~showResult /\ showResult') =>
             /\ LifecycleState = "Active"
             /\ lastEvent' = "press"
             /\ UNCHANGED currentQuestion
       /\ (showResult /\ ~showResult') => lastEvent' \in {"next", "confirm"}
       /\ currentQuestion # NoQuestion => currentQuestion' # NoQuestion]_vars

\* C13's case: the next-question button has replaced an Answered question
\* by an Active one.
C13_Witness ==
    /\ lastEvent = "next"
    /\ ~thrown
    /\ LifecycleState = "Active"
    /\ totalQuestions = 1

\* C14: every call of generateOptions ends, by a return or by a throw: the
\* first loop counts at most 20 attempts and never holds more than 4
\* entries, it is left with 4 entries or after the 20th attempt, the filler
\* loop adds at most 3 entries, and the result is what the loops computed.
C14_SampleTerminates ==
    /\ [](/\ attempts \in 0..maxAttempts
          /\ Len(callResult.collected) <= 4
          /\ callResult.state \in {"fill", "returned"} =>
                /\ Len(callResult.collected) = 4 \/ attempts = maxAttempts
                /\ Len(callResult.collected) >= 1
                /\ Len(callResult.filled) <= 4
                /\ Len(callResult.filled) - Len(callResult.collected) <= 3
          /\ callResult.state = "returned" =>
                /\ callResult.filled = FillOptions(callResult.collected)
                /\ Len(callResult.options) = 4)
    /\ <>(callResult.state \in {"returned", "threw"})

\* C14's case: every draw repeated the value already present, the loop gave
\* up after its 20th attempt and the call returned.
C14_Witness ==
    /\ kelimeler = <<Haus>>
    /\ call.type = "anlam"
    /\ call.correctAnswer = "ev"
    /\ callResult.state = "returned"
    /\ attempts = maxAttempts
    /\ callResult.collected = <<"ev">>

\* C15: a call of checkAnswer while there is no current question changes
\* none of score, totalQuestions, streak, selectedAnswer and showResult,
\* sets no question and throws no error.
C15_CheckWithoutQuestion ==
    [][(lastEvent' = "check" /\ currentQuestion = NoQuestion) =>
          /\ UNCHANGED <<score, totalQuestions, streak, selectedAnswer,
                         showResult, currentQuestion>>
          /\ ~thrown']_vars

\* C15's case: checkAnswer was called on the mounted screen of the empty
\* dictionary, which has no question.
C15_Witness ==
    /\ lastEvent = "check"
    /\ mounted
    /\ kelimeler = <<>>
    /\ currentQuestion = NoQuestion
    /\ selectedAnswer = Null
    /\ totalQuestions = 0

\* C16: the fields of a built question match the subject drawn for it: a
\* kelime-anlam question asks the subject's word and its answer is the
\* subject's meaning; an anlam-kelime question asks the meaning and its
\* answer is the word; a cekim question's answer is the subject's form for
\* the person its prompt names, a non-empty string, and its verb is the
\* subject's word; a perfekt question's answer and verb are the subject's
\* word.
C16_FieldsMatchSubject ==
    currentQuestion # NoQuestion =>
        CASE currentQuestion.type = "kelime-anlam" ->
               /\ currentQuestion.question = randomKelime.kelime
               /\ currentQuestion.correctAnswer = randomKelime.anlam
          [] currentQuestion.type = "anlam-kelime" ->
               /\ currentQuestion.question = randomKelime.anlam
               /\ currentQuestion.correctAnswer = randomKelime.kelime
          [] currentQuestion.type = "cekim" ->
               /\ \E p \in 1..Len(KISILER) :
                     /\ currentQuestion.correctAnswer =
                           randomKelime.cekimler[KISILER[p]]
                     /\ currentQuestion.question =
                           KISI_LABELS[KISILER[p]] \o " _______ ("
                              \o randomKelime.kelime \o ")"
               /\ TruthyString(currentQuestion.correctAnswer)
               /\ currentQuestion.verb = randomKelime.kelime
          [] currentQuestion.type = "perfekt" ->
               /\ currentQuestion.correctAnswer = randomKelime.kelime
               /\ currentQuestion.verb = randomKelime.kelime
          [] OTHER -> FALSE

\* C16's case: the conjugation question for gehen and the person ich.
C16_Witness ==
    /\ kelimeler = <<gehen, Haus>>
    /\ randomKelime = gehen
    /\ currentQuestion.type = "cekim"
    /\ currentQuestion.question = "ich _______ (gehen)"
    /\ currentQuestion.correctAnswer = "gehe"
    /\ currentQuestion.verb = "gehen"

\* the conjugated forms of the dictionary's verbs that have a conjugation
\* table and are not the excluded word
OtherVerbForms ==
    {kelimeler[i].cekimler[k] :
        i \in {j \in 1..Len(kelimeler) :
                  /\ ~kelimeler[j].nullish
                  /\ kelimeler[j].tur = "verb"
                  /\ kelimeler[j].cekimler # NoCekimler
                  /\ kelimeler[j].kelime # call.verb},
        k \in {"ich", "du", "er_sie_es", "wir", "ihr", "sie_Sie"}}

\* C17: in cekim mode every entry the loop adds to the correct answer is a
\* conjugated form of a verb with a conjugation table other than the
\* excluded word; when the dictionary has no such verb the loop adds
\* nothing and the call returns the correct answer and three filler
\* strings.
C17_ConjugationCandidates ==
    (call.type = "cekim" /\ callResult.state = "returned") =>
        /\ callResult.collected[1] = call.correctAnswer
        /\ \A j \in 2..Len(callResult.collected) :
              callResult.collected[j] \in OtherVerbForms
        /\ OtherVerbForms = {} =>
              /\ callResult.collected = <<call.correctAnswer>>
              /\ Len(callResult.filled) = 4
              /\ \A j \in 2..4 :
                    callResult.filled[j] \in Entries(fallbackOptions)
              /\ \E p \in Permutations(1..4) :
                    callResult.options =
                       [i \in 1..4 |-> callResult.filled[p[i]]]

\* C17's case: the dictionary's only conjugable verb is the excluded one.
C17_Witness ==
    /\ kelimeler = <<gehen, Haus>>
    /\ call = [correctAnswer |-> "gehe", type |-> "cekim", verb |-> "gehen"]
    /\ callResult.state = "returned"
    /\ callResult.filled = <<"gehe", "secenek 1", "secenek 2", "secenek 3">>

\* the words of the dictionary's entries
DictionaryWords ==
    {kelimeler[i].kelime : i \in {j \in 1..Len(kelimeler) :
                                     ~kelimeler[j].nullish}}

\* the strings the sampler's perfekt mode makes of them
PerfektCandidates == {w \o " (perfekt)" : w \in DictionaryWords}

\* C18: in a perfekt question every option other than the correct answer
\* is the word of a dictionary entry, different from the subject's word, or
\* a filler string; no option of any built question is a string
\* "<word> (perfekt)".
C18_PerfektOptionsAreWords ==
    currentQuestion # NoQuestion =>
        /\ currentQuestion.type = "perfekt" =>
              \A i \in 1..Len(currentQuestion.options) :
                 \/ currentQuestion.options[i] = currentQuestion.correctAnswer
                 \/ /\ currentQuestion.options[i] \in DictionaryWords
                    /\ currentQuestion.options[i] # randomKelime.kelime
                 \/ currentQuestion.options[i] \in Entries(fallbackOptions)
        /\ \A i \in 1..Len(currentQuestion.options) :
              currentQuestion.options[i] \notin PerfektCandidates

\* C18's case: a perfekt question on gehen whose distractors are the words
\* of the three other entries.
C18_Witness ==
    /\ kelimeler = <<gehen, essen, Haus, Buch>>
    /\ currentQuestion.type = "perfekt"
    /\ currentQuestion.correctAnswer = "gehen"
    /\ Entries(currentQuestion.options) = {"gehen", "essen", "Haus", "Buch"}

\* C19: in every reachable state 0 <= streak <= score <= totalQuestions.
C19_CountersOrdered ==
    /\ 0 <= streak
    /\ streak <= score
    /\ score <= totalQuestions

\* C19's case: a correct answer after a wrong one, the streak below the
\* number of answers and equal to the score.
C19_Witness ==
    /\ lastEvent = "press"
    /\ selectedAnswer = currentQuestion.correctAnswer
    /\ totalQuestions = 2
    /\ score = 1
    /\ streak = 1

\* C20: showResult is true exactly when selectedAnswer is not null, and
\* then there is a current question, it has 4 options and selectedAnswer is
\* one of them.
C20_AnswerDisplayConsistent ==
    /\ showResult <=> selectedAnswer # Null
    /\ showResult =>
          /\ currentQuestion # NoQuestion
          /\ Len(currentQuestion.options) = 4
          /\ selectedAnswer \in Entries(currentQuestion.options)

\* C20's case: a wrong option of the current question is on display.
C20_Witness ==
    /\ showResult
    /\ kelimeler = <<Haus>>
    /\ selectedAnswer = "secenek 2"
    /\ currentQuestion.correctAnswer = "ev"
=============================================================================
